---------------------------- MODULE Spec2Model ----------------------------
(***************************************************************************)
(* The snake game of the_snake.py: the Snake and Apple objects and the     *)
(* main loop, one action per step of a tick.  Drawing is left out: it      *)
(* reads the state and changes none of it.                                 *)
(***************************************************************************)
EXTENDS Integers, Sequences, FiniteSets

(* ------------------------------ bounds -------------------------------- *)
\* The program's grid is 32 x 24 cells (640 x 480 pixels, 20-pixel cells).
\* Both dimensions are even, which is what puts the screen centre on the
\* grid; the model keeps that by bounding the half-dimensions.
HalfCols == 2
HalfRows == 1
\* The half-dimension of the square board of the long game, the one the
\* snake can fill.
HalfFull == 1
\* The half-dimension of the square board of the wide game, on which a
\* straight snake of three cells does not reach around the board.
HalfWide == 2
\* Longest list of events one call of pygame.event.get() returns.
MaxEvents == 2
\* The same in the wide game.
WideEvents == 1
\* The player closes the window once this many apples were eaten.
MaxScore == 2
\* The same in the wide game: enough for a body of four cells to move on.
WideScore == 4

(* ----------------------------- constants ------------------------------ *)
GRID_SIZE == 20

UP == <<0, -1>>
DOWN == <<0, 1>>
LEFT == <<-1, 0>>
RIGHT == <<1, 0>>

\* Python's None, for next_direction and last_position.
None == <<>>

Directions == {UP, DOWN, LEFT, RIGHT}

\* The events pygame.event.get() can return, as main tells them apart: the
\* QUIT event, a KEYDOWN of one of the four arrow keys, and anything else
\* (a KEYDOWN of another key, an event of another type), which changes
\* nothing.
EventKinds == {"QUIT", "K_UP", "K_DOWN", "K_LEFT", "K_RIGHT", "K_OTHER"}

VARIABLES
    SCREEN_WIDTH,    \* module constant, fixed by the initial state
    SCREEN_HEIGHT,   \* module constant, fixed by the initial state
    length,          \* snake.length
    positions,       \* snake.positions, head first
    direction,       \* snake.direction
    next_direction,  \* snake.next_direction
    last_position,   \* snake.last_position
    apple,           \* apple.position
    running,         \* main's running
    score,           \* main's score
    events,          \* the list pygame.event.get() returned in this tick
    pc               \* main's position in the loop body

vars == <<SCREEN_WIDTH, SCREEN_HEIGHT, length, positions, direction,
          next_direction, last_position, apple, running, score, events, pc>>

snakeVars == <<length, positions, direction, next_direction, last_position>>

GRID_WIDTH == SCREEN_WIDTH \div GRID_SIZE
GRID_HEIGHT == SCREEN_HEIGHT \div GRID_SIZE

\* GameObject.position of the snake: the centre of the screen.
Center == <<SCREEN_WIDTH \div 2, SCREEN_HEIGHT \div 2>>

\* The cells Apple.randomize_position can draw.
Cells == {<<x * GRID_SIZE, y * GRID_SIZE>> :
            x \in 0 .. (GRID_WIDTH - 1), y \in 0 .. (GRID_HEIGHT - 1)}

Range(s) == {s[i] : i \in 1 .. Len(s)}

\* Sequences of events of length at most n.
RECURSIVE SeqsUpTo(_)
SeqsUpTo(n) ==
    IF n = 0 THEN {<<>>}
    ELSE LET shorter == SeqsUpTo(n - 1)
         IN  shorter \cup {Append(s, e) : s \in {t \in shorter : Len(t) = n - 1},
                                          e \in EventKinds}

(* ------------------------------ Snake --------------------------------- *)
get_head_position(ps) == ps[1]

\* update_direction without the test for a reversal.
update_direction_commits_any(dir, nd) ==
    IF nd # None THEN <<nd, None>> ELSE <<dir, nd>>

\* update_direction that clears the pending slot only when it commits.
update_direction_keeps_rejected(dir, nd) ==
    IF nd # None /\ ~(dir[1] + nd[1] = 0 /\ dir[2] + nd[2] = 0)
    THEN <<nd, None>>
    ELSE <<dir, nd>>

\* Snake.update_direction: the pair <<direction, next_direction>> after it.
update_direction(dir, nd) ==
    IF nd # None
    THEN IF ~(dir[1] + nd[1] = 0 /\ dir[2] + nd[2] = 0)
         THEN <<nd, None>>
         ELSE <<dir, None>>
    ELSE <<dir, nd>>

\* The new head wrapped one column and one row too early.
new_head_narrow_wrap(ps, dir) ==
    <<(get_head_position(ps)[1] + dir[1] * GRID_SIZE) % (SCREEN_WIDTH - GRID_SIZE),
      (get_head_position(ps)[2] + dir[2] * GRID_SIZE) % (SCREEN_HEIGHT - GRID_SIZE)>>

\* The new head without the wraparound.
new_head_no_wrap(ps, dir) ==
    <<get_head_position(ps)[1] + dir[1] * GRID_SIZE,
      get_head_position(ps)[2] + dir[2] * GRID_SIZE>>

\* The new head Snake.move computes.
new_head(ps, dir) ==
    <<(get_head_position(ps)[1] + dir[1] * GRID_SIZE) % SCREEN_WIDTH,
      (get_head_position(ps)[2] + dir[2] * GRID_SIZE) % SCREEN_HEIGHT>>

\* positions[1:-1]: the body without the tail, which the move vacates.
Rest_without_tail(ps) ==
    IF Len(ps) <= 2 THEN <<>> ELSE SubSeq(ps, 2, Len(ps) - 1)

\* positions[2:]
Rest_from_2(ps) == IF Len(ps) <= 2 THEN <<>> ELSE SubSeq(ps, 3, Len(ps))

\* positions[1:]
Rest(ps) == IF Len(ps) = 0 THEN <<>> ELSE Tail(ps)

\* The test of Snake.move that sends it to reset().
Bites(ps, dir) == new_head(ps, dir) \in Range(Rest(ps))

\* reset that leaves the heading as it is.
reset_keeps_direction ==
    [length |-> 1, positions |-> <<Center>>, direction |-> direction,
     next_direction |-> None, last_position |-> None]

\* Snake.reset, as the record of the snake's fields.
reset ==
    [length |-> 1, positions |-> <<Center>>, direction |-> RIGHT,
     next_direction |-> None, last_position |-> None]

\* The tail dropped as soon as the body is as long as length.
pop_tail_early(ps, len) ==
    IF Len(ps) >= len THEN SubSeq(ps, 1, Len(ps) - 1) ELSE ps

\* The end of Snake.move: the tail is dropped once the body is longer
\* than length.
pop_tail(ps, len) ==
    IF Len(ps) > len THEN SubSeq(ps, 1, Len(ps) - 1) ELSE ps

\* Snake.move on the snake s (a record of its fields).
move(s) ==
    LET tail == IF Len(s.positions) > 0 THEN s.positions[Len(s.positions)] ELSE None
        inserted == <<new_head(s.positions, s.direction)>> \o s.positions
    IN  IF Bites(s.positions, s.direction)
        THEN reset
        ELSE [s EXCEPT !.last_position = tail,
                       !.positions = pop_tail(inserted, s.length)]

\* grow that adds two segments.
grow_by_two(len) == len + 2

\* Snake.grow
grow(len) == len + 1

snake == [length |-> length, positions |-> positions, direction |-> direction,
          next_direction |-> next_direction, last_position |-> last_position]

SetSnake(s) ==
    /\ length' = s.length
    /\ positions' = s.positions
    /\ direction' = s.direction
    /\ next_direction' = s.next_direction
    /\ last_position' = s.last_position

(* --------------------------- event handling --------------------------- *)
\* handle_keys that keeps a direction already pending.
handle_keys_first_wins(nd, key) ==
    IF nd # None THEN nd
    ELSE CASE key = "K_UP" -> UP
           [] key = "K_DOWN" -> DOWN
           [] key = "K_LEFT" -> LEFT
           [] key = "K_RIGHT" -> RIGHT
           [] OTHER -> nd

\* handle_keys: next_direction after one KEYDOWN event.
handle_keys(nd, key) ==
    CASE key = "K_UP" -> UP
      [] key = "K_DOWN" -> DOWN
      [] key = "K_LEFT" -> LEFT
      [] key = "K_RIGHT" -> RIGHT
      [] OTHER -> nd

\* A loop over the events that ends at the QUIT event.
RECURSIVE process_events_stops_at_quit(_, _, _)
process_events_stops_at_quit(evs, run, nd) ==
    IF evs = <<>> THEN <<run, nd>>
    ELSE IF Head(evs) = "QUIT"
         THEN <<FALSE, nd>>
         ELSE process_events_stops_at_quit(Tail(evs), run,
                                           handle_keys(nd, Head(evs)))

\* The for loop of main over the events: <<running, next_direction>> after
\* the events evs have been handled in order.
RECURSIVE process_events(_, _, _)
process_events(evs, run, nd) ==
    IF evs = <<>> THEN <<run, nd>>
    ELSE IF Head(evs) = "QUIT"
         THEN process_events(Tail(evs), FALSE, nd)
         ELSE process_events(Tail(evs), run, handle_keys(nd, Head(evs)))

\* The relocation test against the body without the head.
on_snake_body_only(a, ps) == a \in Range(Rest(ps))

\* The test of main's relocation loop: apple.position in snake.positions.
on_snake(a, ps) == a \in Range(ps)

(* ------------------------------ actions ------------------------------- *)
\* main, lines 265-269: Snake(), Apple(), running and score.
InitGame ==
    /\ length = 1
    /\ positions = <<Center>>
    /\ direction = RIGHT
    /\ next_direction = None
    /\ last_position = None
    /\ apple \in Cells
    /\ running = TRUE
    /\ score = 0
    /\ events = <<>>
    /\ pc = "events"

Init ==
    /\ SCREEN_WIDTH = 2 * HalfCols * GRID_SIZE
    /\ SCREEN_HEIGHT = 2 * HalfRows * GRID_SIZE
    /\ InitGame

\* The long game on a board small enough to be filled.
InitFull ==
    /\ SCREEN_WIDTH = 2 * HalfFull * GRID_SIZE
    /\ SCREEN_HEIGHT = 2 * HalfFull * GRID_SIZE
    /\ InitGame

\* The wide game.
InitWide ==
    /\ SCREEN_WIDTH = 2 * HalfWide * GRID_SIZE
    /\ SCREEN_HEIGHT = 2 * HalfWide * GRID_SIZE
    /\ InitGame

\* The for loop over pygame.event.get().  The player sends at most
\* maxEvents events a tick, and a QUIT once quitAt apples were eaten.
PollEvents(maxEvents, quitAt) ==
    /\ pc = "events"
    /\ \E evs \in SeqsUpTo(maxEvents) :
         /\ score >= quitAt => "QUIT" \in Range(evs)
         /\ events' = evs
         /\ running' = process_events(evs, running, next_direction)[1]
         /\ next_direction' = process_events(evs, running, next_direction)[2]
    /\ pc' = "update"
    /\ UNCHANGED <<SCREEN_WIDTH, SCREEN_HEIGHT, length, positions, direction,
                   last_position, apple, score>>

\* A loop body that moves before it calls update_direction(): the heading
\* of this tick's move is not yet the one of this tick's key.
UpdateDirection_after_move ==
    /\ pc = "update"
    /\ events' = <<>>
    /\ pc' = "move"
    /\ UNCHANGED <<SCREEN_WIDTH, SCREEN_HEIGHT, snakeVars, apple, running,
                   score>>

\* snake.update_direction()
UpdateDirection ==
    /\ pc = "update"
    /\ direction' = update_direction(direction, next_direction)[1]
    /\ next_direction' = update_direction(direction, next_direction)[2]
    /\ events' = <<>>
    /\ pc' = "move"
    /\ UNCHANGED <<SCREEN_WIDTH, SCREEN_HEIGHT, length, positions,
                   last_position, apple, running, score>>

\* snake.move()
Move ==
    /\ pc = "move"
    /\ SetSnake(move(snake))
    /\ pc' = "eat"
    /\ UNCHANGED <<SCREEN_WIDTH, SCREEN_HEIGHT, apple, running, score, events>>

\* An eat check that derives the score from the snake's length.
Eat_score_from_length ==
    /\ pc = "eat"
    /\ get_head_position(positions) = apple
    /\ length' = grow(length)
    /\ apple' \in Cells
    /\ score' = length' - 1
    /\ pc' = "relocate"
    /\ UNCHANGED <<SCREEN_WIDTH, SCREEN_HEIGHT, positions, direction,
                   next_direction, last_position, running, events>>

\* The eat check: grow, the first randomize_position, score += 1.
Eat ==
    /\ pc = "eat"
    /\ get_head_position(positions) = apple
    /\ length' = grow(length)
    /\ apple' \in Cells
    /\ score' = score + 1
    /\ pc' = "relocate"
    /\ UNCHANGED <<SCREEN_WIDTH, SCREEN_HEIGHT, positions, direction,
                   next_direction, last_position, running, events>>

\* The eat check when the head is not on the apple.
NoEat ==
    /\ pc = "eat"
    /\ get_head_position(positions) # apple
    /\ pc' = "draw"
    /\ UNCHANGED <<SCREEN_WIDTH, SCREEN_HEIGHT, snakeVars, apple, running,
                   score, events>>

\* The relocation written with `if` for `while`: one more draw, unchecked.
Relocate_once ==
    /\ pc = "relocate"
    /\ on_snake(apple, positions)
    /\ apple' \in Cells
    /\ pc' = "draw"
    /\ UNCHANGED <<SCREEN_WIDTH, SCREEN_HEIGHT, snakeVars, running, score,
                   events>>

\* A relocation loop that draws a new column only.
Relocate_column_only ==
    /\ pc = "relocate"
    /\ on_snake(apple, positions)
    /\ \E c \in Cells : apple' = <<c[1], apple[2]>>
    /\ UNCHANGED <<SCREEN_WIDTH, SCREEN_HEIGHT, snakeVars, running, score,
                   events, pc>>

\* One iteration of the relocation loop.
Relocate ==
    /\ pc = "relocate"
    /\ on_snake(apple, positions)
    /\ apple' \in Cells
    /\ UNCHANGED <<SCREEN_WIDTH, SCREEN_HEIGHT, snakeVars, running, score,
                   events, pc>>

\* The relocation loop ends.
Relocated ==
    /\ pc = "relocate"
    /\ ~on_snake(apple, positions)
    /\ pc' = "draw"
    /\ UNCHANGED <<SCREEN_WIDTH, SCREEN_HEIGHT, snakeVars, apple, running,
                   score, events>>

\* The drawing calls, clock.tick and the test of the while loop.
Draw ==
    /\ pc = "draw"
    /\ pc' = IF running THEN "events" ELSE "done"
    /\ UNCHANGED <<SCREEN_WIDTH, SCREEN_HEIGHT, snakeVars, apple, running,
                   score, events>>

Tick(maxEvents, quitAt) ==
    \/ PollEvents(maxEvents, quitAt)
    \/ UpdateDirection
    \/ Move
    \/ Eat
    \/ NoEat
    \/ Relocate
    \/ Relocated
    \/ Draw

Next == Tick(MaxEvents, MaxScore)

Spec == Init /\ [][Next]_vars

\* The long game: the player keeps playing until as many apples were eaten
\* as the board has cells.
NextFull == Tick(MaxEvents, (2 * HalfFull) * (2 * HalfFull))

SpecFull == InitFull /\ [][NextFull]_vars

NextWide == Tick(WideEvents, WideScore)

SpecWide == InitWide /\ [][NextWide]_vars

\* The relocation loop draws a free cell: what a fair random choice of
\* cells gives as long as a free cell exists.
RelocateFree == Relocate /\ ~on_snake(apple', positions)

\* The long game under fairness: the loop body always goes on to its next
\* statement, and the random draws are fair.
FairSpecFull == SpecFull /\ WF_vars(NextFull) /\ WF_vars(RelocateFree)

(* ------------------------- properties -------------------------------- *)
\* Helpers of the properties below.
Opposite(d) == <<0 - d[1], 0 - d[2]>>

NumCells == GRID_WIDTH * GRID_HEIGHT

OnGrid(c) ==
    /\ c[1] \in 0 .. (SCREEN_WIDTH - 1)
    /\ c[2] \in 0 .. (SCREEN_HEIGHT - 1)
    /\ c[1] % GRID_SIZE = 0
    /\ c[2] % GRID_SIZE = 0

ArrowKeys == {"K_UP", "K_DOWN", "K_LEFT", "K_RIGHT"}

ArrowDir(k) ==
    IF k = "K_UP" THEN UP
    ELSE IF k = "K_DOWN" THEN DOWN
    ELSE IF k = "K_LEFT" THEN LEFT
    ELSE RIGHT

\* The direction of the last arrow key of evs, None when there is none.
LastArrow(evs) ==
    LET at == {i \in 1 .. Len(evs) : evs[i] \in ArrowKeys}
    IN  IF at = {} THEN None
        ELSE ArrowDir(evs[CHOOSE i \in at : \A j \in at : j <= i])

\* The states between two statements of the loop body in which no eaten
\* apple waits for its relocation.
AppleSettled == pc \in {"events", "update", "move", "draw", "done"}

\* C1: from the initial state on, whenever the apple is not in the middle
\* of being eaten and relocated, apple.position is no cell of
\* snake.positions.
C1_AppleNeverOnSnake == AppleSettled => apple \notin Range(positions)

\* C2: a move() whose new head is in positions[1:] leaves the snake in its
\* initial state (length 1, the centre cell alone, heading RIGHT, nothing
\* pending, no last position): the new head is not inserted.
C2_SelfCollisionResets ==
    [][(pc = "move" /\ new_head(positions, direction) \in Range(Rest(positions)))
        => /\ length' = 1
           /\ positions' = <<Center>>
           /\ direction' = RIGHT
           /\ next_direction' = None
           /\ last_position' = None]_vars

\* C2 witness: right after a move() that reset a snake which had eaten.
C2_ResetHappened ==
    /\ pc = "eat"
    /\ last_position = None
    /\ positions = <<Center>>
    /\ score >= 1

\* C3: update_direction() commits the pending heading exactly when one is
\* pending and it is not the reverse of the heading, otherwise the heading
\* stays; after the call nothing is pending, so every tick starts with an
\* empty pending slot.
C3_UpdateDirection ==
    /\ [](pc \in {"events", "move", "eat", "relocate", "draw", "done"}
            => next_direction = None)
    /\ [][pc = "update"
            => /\ direction' = IF next_direction \in Directions
                                  /\ next_direction # Opposite(direction)
                               THEN next_direction
                               ELSE direction
               /\ next_direction' = None]_vars

\* C3 witness: update_direction() has committed LEFT on a snake of length 1.
C3_CommittedLeft ==
    /\ pc = "move"
    /\ direction = LEFT
    /\ Len(positions) = 1
    /\ next_direction = None

\* C4: the body is never empty and never longer than length, and right
\* after a move() that did not reset it is exactly as long as length.
C4_LengthInvariant ==
    /\ [](Len(positions) >= 1 /\ Len(positions) <= length)
    /\ [][(pc = "move" /\ ~Bites(positions, direction))
            => Len(positions') = length']_vars

\* C4 witness: right after a move() that lengthened the body to length.
C4_MovedAtFullLength ==
    /\ pc = "eat"
    /\ last_position # None
    /\ length >= 2
    /\ Len(positions) = length

\* C5: snake.positions holds no cell twice, at tick boundaries and inside
\* the ticks.
C5_NoDuplicateCells == Cardinality(Range(positions)) = Len(positions)

\* C5 witness: the end of a tick with a body of three cells.
C5_LongBody == pc \in {"events", "done"} /\ Len(positions) >= 3

\* C6: every cell of the snake and the apple lies on the grid inside the
\* screen, and a move off one edge enters at the opposite edge of the
\* same row or column.
C6_ClosedUnderWraparound ==
    /\ []((\A i \in 1 .. Len(positions) : OnGrid(positions[i])) /\ OnGrid(apple))
    /\ [][(pc = "move" /\ ~Bites(positions, direction))
            => LET h == positions[1]
                   n == positions'[1]
               IN  /\ (direction = RIGHT /\ h[1] = SCREEN_WIDTH - GRID_SIZE)
                        => n = <<0, h[2]>>
                   /\ (direction = LEFT /\ h[1] = 0)
                        => n = <<SCREEN_WIDTH - GRID_SIZE, h[2]>>
                   /\ (direction = DOWN /\ h[2] = SCREEN_HEIGHT - GRID_SIZE)
                        => n = <<h[1], 0>>
                   /\ (direction = UP /\ h[2] = 0)
                        => n = <<h[1], SCREEN_HEIGHT - GRID_SIZE>>]_vars

\* C6 witness: a snake of two cells whose head entered column 0 from the
\* rightmost column.
C6_WrappedRight ==
    /\ pc = "eat"
    /\ Len(positions) = 2
    /\ direction = RIGHT
    /\ positions[1][1] = 0
    /\ positions[2][1] = SCREEN_WIDTH - GRID_SIZE

\* C7: when the head is on the apple after move(), length rises by exactly
\* 1 and stays there to the end of the tick, the body is not touched, and
\* the apple the tick ends with is neither the eaten one (the head's cell)
\* nor any other cell of the body; when the head is not on the apple, the
\* eat check changes neither length nor the apple.
C7_EatingSequence ==
    [][/\ (pc = "eat" /\ positions[1] = apple)
            => /\ length' = length + 1
               /\ positions' = positions
               /\ pc' = "relocate"
       /\ (pc = "eat" /\ positions[1] # apple)
            => /\ length' = length
               /\ apple' = apple
               /\ pc' = "draw"
       /\ pc = "relocate"
            => /\ length' = length
               /\ positions' = positions
               /\ pc' \in {"relocate", "draw"}
       /\ (pc = "relocate" /\ pc' = "draw")
            => /\ apple' # positions'[1]
               /\ apple' \notin Range(positions')]_vars

\* C7 witness: the end of a tick in which an apple was eaten and relocated.
C7_AteAndRelocated ==
    /\ pc = "draw"
    /\ length = Len(positions) + 1
    /\ apple \notin Range(positions)
    /\ Len(positions) >= 2

\* C8: with a body shorter than the number of cells, the relocation loop
\* ends, and it ends with the apple off the body.
C8_RelocationConverges ==
    (pc = "relocate" /\ Len(positions) < NumCells)
        ~> (pc = "draw" /\ apple \notin Range(positions))

\* C8 witness: the loop is running on a body one cell short of the board,
\* with the apple on the body.
C8_LoopOnNearlyFullBoard ==
    /\ pc = "relocate"
    /\ Len(positions) = NumCells - 1
    /\ apple \in Range(positions)

\* C9: as long as no quit was received, the tick that is under way
\* completes and the next one begins.
C9_TickCompletes == (running /\ pc # "done") ~> (pc = "events")

\* C10: the pending heading update_direction() finds is that of the last
\* arrow key drained in the tick, or none; it alone decides the heading;
\* and the pending slot holds one direction or nothing.
C10_LastKeyWins ==
    /\ [](next_direction \in Directions \cup {None})
    /\ [](pc = "update" => next_direction = LastArrow(events))
    /\ [][pc = "update"
            => direction' = IF LastArrow(events) = None
                               \/ LastArrow(events) = Opposite(direction)
                            THEN direction
                            ELSE LastArrow(events)]_vars

\* C10 witness: heading RIGHT, Up then Left drained in one tick, Left
\* alone pending.
C10_UpThenLeft ==
    /\ pc = "update"
    /\ events = <<"K_UP", "K_LEFT">>
    /\ direction = RIGHT
    /\ next_direction = LEFT

\* C11: a quit drained in a tick only clears running: the events after it
\* in the same drain are handled (the last arrow key of the whole drain is
\* pending), the tick goes on statement by statement through
\* update_direction, move and the eat check, each done once, and the loop
\* ends at its next test, so that no tick starts with running false.
C11_QuitBetweenTicks ==
    /\ []((pc = "update" /\ "QUIT" \in Range(events))
            => (~running /\ next_direction = LastArrow(events)))
    /\ [](pc = "events" => running)
    /\ [][~running
            => /\ running' = FALSE
               /\ pc = "update"
                    => /\ pc' = "move"
                       /\ direction' = update_direction(direction, next_direction)[1]
               /\ pc = "move"
                    => /\ pc' = "eat"
                       /\ positions' = move(snake).positions
               /\ pc = "eat"
                    => /\ pc' = IF positions[1] = apple THEN "relocate" ELSE "draw"
                       /\ length' = IF positions[1] = apple THEN length + 1 ELSE length
               /\ pc = "relocate" => (pc' \in {"relocate", "draw"} /\ length' = length)
               /\ pc = "draw" => pc' = "done"]_vars

\* C11 witness: the first tick drained a quit and then Up; the snake has
\* turned and moved up all the same.
C11_MovedAfterQuit ==
    /\ pc = "eat"
    /\ ~running
    /\ score = 0
    /\ direction = UP
    /\ last_position = Center
    /\ positions = <<new_head(<<Center>>, UP)>>

\* C12: grow() (the eat step) raises length by exactly 1 and leaves
\* positions, direction, next_direction and last_position alone; length is
\* never more than one ahead of the body; and a move() that does not reset
\* lengthens the body by exactly 1, keeping the tail, when length is ahead
\* of it, and by 0, dropping the tail, when it is not.
C12_GrowIsLazy ==
    /\ [](length - Len(positions) \in {0, 1})
    /\ [][/\ (pc = "eat" /\ positions[1] = apple)
               => /\ length' = length + 1
                  /\ UNCHANGED <<positions, direction, next_direction,
                                 last_position>>
          /\ (pc = "move" /\ ~Bites(positions, direction))
               => /\ length' = length
                  /\ IF Len(positions) < length
                     THEN /\ Len(positions') = Len(positions) + 1
                          /\ SubSeq(positions', 2, Len(positions')) = positions
                     ELSE /\ Len(positions') = Len(positions)
                          /\ SubSeq(positions', 2, Len(positions'))
                               = SubSeq(positions, 1, Len(positions) - 1)]_vars

\* C12 witness: right after the move() that follows a grow(): the body has
\* three cells and the cell that was its tail before the move is still its
\* tail.
C12_TailKept ==
    /\ pc = "eat"
    /\ Len(positions) = 3
    /\ last_position = positions[3]

\* The cell one step from c in direction d, around the board.
Step(c, d) ==
    <<(c[1] + d[1] * GRID_SIZE) % SCREEN_WIDTH,
      (c[2] + d[2] * GRID_SIZE) % SCREEN_HEIGHT>>

\* C13: with a body of two or more cells, outside the moment between
\* update_direction() and move() the heading is the step that led from
\* positions[1] (the neck) to the head; and the heading move() is about to
\* use is not the opposite of that step, so that the new head is not the
\* neck.
C13_NeverReversesOntoNeck ==
    Len(positions) >= 2 =>
        /\ pc # "move" => positions[1] = Step(positions[2], direction)
        /\ pc = "move" =>
             /\ \A d \in Directions :
                    positions[1] = Step(positions[2], d) => direction # Opposite(d)
             /\ new_head(positions, direction) # positions[2]

\* C13 witness: a snake with a neck, and the reverse of its heading
\* pending when update_direction() is about to run.
C13_ReversalPending ==
    /\ pc = "update"
    /\ Len(positions) >= 2
    /\ next_direction = Opposite(direction)

\* C14: a move() whose new head is the cell of the tail resets the snake,
\* also when the body is as long as length and the move would have vacated
\* that cell; move() resets exactly when the new head is one of the cells
\* positions[1], ..., positions[-1], every cell but the head.
C14_TailCellCollides ==
    [][pc = "move"
         => /\ (Len(positions) >= 2
                  /\ new_head(positions, direction) = positions[Len(positions)])
               => /\ positions' = <<Center>>
                  /\ length' = 1
                  /\ last_position' = None
            /\ (last_position' = None)
                 <=> (\E i \in 2 .. Len(positions) :
                         new_head(positions, direction) = positions[i])]_vars

\* C14 witness: a body of four cells, as long as length, about to move its
\* head onto the cell of its tail.
C14_HeadMeetsTail ==
    /\ pc = "move"
    /\ Len(positions) = 4
    /\ length = 4
    /\ new_head(positions, direction) = positions[4]

\* The order of the statements of the loop body.
TickOrder ==
    {<<"events", "update">>, <<"update", "move">>, <<"move", "eat">>,
     <<"eat", "relocate">>, <<"eat", "draw">>, <<"relocate", "relocate">>,
     <<"relocate", "draw">>, <<"draw", "events">>, <<"draw", "done">>}

\* C15: the loop body runs drain, update_direction(), move(), eat check in
\* that order; a legal arrow key drained in a tick is the heading the
\* move() of the same tick uses; after the drain nothing touches running or
\* the pending heading but update_direction() itself; the body changes in
\* the one move() of the tick only, and length rises in its one eat check
\* only, by one.
C15_TickOrdering ==
    [][/\ <<pc, pc'>> \in TickOrder
       /\ pc # "events" => running' = running
       /\ pc \notin {"events", "update"} => next_direction' = next_direction
       /\ (pc = "update" /\ LastArrow(events) \in Directions
             /\ LastArrow(events) # Opposite(direction))
            => direction' = LastArrow(events)
       /\ (pc = "move" /\ ~Bites(positions, direction))
            => /\ positions'[1] = Step(positions[1], direction)
               /\ direction' = direction
       /\ pc # "move" => positions' = positions
       /\ pc \notin {"update", "move"} => direction' = direction
       /\ pc = "eat" => length' \in {length, length + 1}
       /\ pc # "eat" => length' <= length]_vars

\* C15 witness: Up was drained in the first tick, and the move() of that
\* tick has gone up.
C15_TurnedInSameTick ==
    /\ pc = "eat"
    /\ running
    /\ score = 0
    /\ direction = UP
    /\ last_position = Center
    /\ positions = <<Step(Center, UP)>>

\* Some tick has completed: the snake has moved or was reset after eating.
TickCompleted == last_position # None \/ score >= 1

\* C16: after the eat check of every tick, and from then up to the move()
\* of the next tick, apple.position is no cell of snake.positions, wherever
\* the first apple was placed and also when move() reset the snake onto
\* the apple.
C16_AppleOffSnakeAfterTick ==
    (pc \in {"draw", "done"}
       \/ (pc \in {"events", "update", "move"} /\ TickCompleted))
        => apple \notin Range(positions)

\* C16 witness: the end of a tick whose move() reset the snake onto the
\* centre cell while the apple lay there: the reset snake ate it and the
\* apple was relocated.
C16_ResetOntoApple ==
    /\ pc = "draw"
    /\ last_position = None
    /\ positions = <<Center>>
    /\ length = 2
    /\ apple # Center

\* C17: on a board at least 4 cells wide and high, a move() of a body of
\* at most three cells never finds its new head in positions[1:]: only a
\* body of four or more cells is reset.
C17_ShortSnakeNeverBites ==
    (GRID_WIDTH >= 4 /\ GRID_HEIGHT >= 4 /\ pc = "move" /\ Len(positions) <= 3)
        => ~Bites(positions, direction)

\* C17 witness: a body of three cells, bent, has moved as a body of three
\* cells (its former tail is gone) and was not reset.
C17_BentThreeMoved ==
    /\ pc = "eat"
    /\ length = 3
    /\ Len(positions) = 3
    /\ last_position # None
    /\ last_position \notin Range(positions)
    /\ positions[1][1] # positions[3][1]
    /\ positions[1][2] # positions[3][2]

\* C18: the score starts at length - 1 = 0, rises by exactly 1 in exactly
\* the steps in which grow() is called and changes in no other step, a
\* reset included; score - length changes in the resetting move() only, so
\* that score = length - 1 up to the first reset and score >= length - 1
\* always.
C18_ScoreCountsApples ==
    /\ score = length - 1
    /\ [](score >= length - 1)
    /\ [][/\ score' \in {score, score + 1}
          /\ (score' = score + 1) <=> (pc = "eat" /\ positions[1] = apple)
          /\ (score' = score + 1) <=> (length' = length + 1)
          /\ ~(pc = "move" /\ Bites(positions, direction))
               => score' - length' = score - length]_vars

\* C18 witness: the end of a tick in which a snake that had eaten two
\* apples was reset: length is 1 again, the score still 2.
C18_ScoreSurvivesReset ==
    /\ pc = "draw"
    /\ last_position = None
    /\ length = 1
    /\ score = 2

=============================================================================
